---- MODULE Spec2Model ----
(***************************************************************************)
(* Model of the Vertex AI cached chat-model node:                          *)
(*   - VertexAiCached.supplyData and the handle it returns (the cache      *)
(*     binding, its bindTools / withConfig / withStructuredOutput), in     *)
(*     specification Spec;                                                 *)
(*   - N8nLlmTracing.options.tokensUsageParser, in specification           *)
(*     SpecParser;                                                         *)
(*   - the N8nLlmTracing callbacks handleLLMStart, handleLLMEnd and        *)
(*     handleLLMError of one handler instance, in specification            *)
(*     SpecTracing.                                                        *)
(* Strings that the code inspects character by character (the cached       *)
(* content name) are sequences of one-character strings.  Objects with     *)
(* optional keys (options, kwargs, config, usage metadata) are functions   *)
(* whose domain is the set of keys that are present.                       *)
(***************************************************************************)
EXTENDS Integers, Sequences, FiniteSets, TLC

VARIABLES
    pc,         \* "init" | "supplied" | "failed": position of the node invocation
    node,       \* the node parameters supplyData read (cachedContentName, options)
    model,      \* the ChatVertexAI instance (one mutable object)
    response,   \* the handle supplyData returned
    derived,    \* the handle the host derived last (by bindTools, withConfig, ...)
    last,       \* the last call made: its arguments and its outcome
    result,     \* parser: the result envelope (LLMResult)
    usage,      \* parser: the record tokensUsageParser returned
    ppc,        \* parser: "ready" | "parsed"
    runsMap,        \* tracing: this.runsMap, the run details by runId
    parentRunIndex, \* tracing: this.#parentRunIndex, undefined or a number
    runs,           \* tracing: per runId, where the run is ("idle", "started",
                    \*          "ended", "failed", or "unknownEnded" /
                    \*          "unknownFailed" when it finished without a
                    \*          start) and the index the host returned to its
                    \*          handleLLMStart
    runData,        \* tracing: the host's run entries of the node, by run index
    emitted         \* tracing: the handler's last call of the host, with the
                    \*          handler's argument (output, thrown) and the
                    \*          error object as the handler left it (after)

vars == <<pc, node, model, response, derived, last, result, usage, ppc,
          runsMap, parentRunIndex, runs, runData, emitted>>
binderVars == <<pc, node, model, response, derived, last>>
parserVars == <<result, usage, ppc>>
tracingVars == <<runsMap, parentRunIndex, runs, runData, emitted>>

---------------------------------------------------------------------------
(* Bounds of the model *)

MaxDepth == 2       \* longest chain of handles derived from supplyData's response
MaxTools == 2       \* longest tool list the host passes to bindTools
MaxRuns == 2        \* LLM runs (runIds) one handler instance sees
MaxParentRunIndex == 1  \* largest run index the host sets as parent run index

---------------------------------------------------------------------------
(* Objects with optional keys *)

EmptyMap == [k \in {} |-> 0]

Has(m, k) == k \in DOMAIN m

\* { ...a, ...b }: the keys of both, b's value where both have the key
Spread(a, b) == [k \in (DOMAIN a) \cup (DOMAIN b) |-> IF k \in DOMAIN b THEN b[k] ELSE a[k]]

---------------------------------------------------------------------------
(* Strings as character sequences *)

RECURSIVE TrimStart(_)
TrimStart(s) == IF s # <<>> /\ Head(s) = " " THEN TrimStart(Tail(s)) ELSE s

RECURSIVE TrimEnd(_)
TrimEnd(s) == IF s # <<>> /\ s[Len(s)] = " " THEN TrimEnd(SubSeq(s, 1, Len(s) - 1)) ELSE s

\* String.prototype.trim
Trim(s) == TrimEnd(TrimStart(s))

\* Faulty variant: the name tested without trimming
HasCacheUntrimmed(cachedContentName) == cachedContentName # <<>>

\* cachedContentName && cachedContentName.trim() !== ''
HasCache(cachedContentName) == cachedContentName # <<>> /\ Trim(cachedContentName) # <<>>

---------------------------------------------------------------------------
(* Node parameters and the base model (supplyData, lines 268-347) *)

\* UI defaults applied when an option is not set; decimals are in hundredths
DefaultTemperature == 90
DefaultTopP == 95
DefaultTopK == 40
DefaultMaxOutputTokens == 8192

\* The cached content names the node may be configured with ('' when absent)
CachedContentNames == << <<>>, <<" ">>, <<"c", "1">>, <<"c", "1", " ">> >>

\* The options collections the node may be configured with: only the
\* explicitly set values are present
NodeOptions ==
    << EmptyMap,
       [useGoogleSearchGrounding |-> TRUE],
       [useGoogleSearchGrounding |-> TRUE, temperature |-> 0, topP |-> 50,
        maxOutputTokens |-> 0, thinkingBudget |-> 0],
       [useGoogleSearchGrounding |-> FALSE, temperature |-> 20, topK |-> 0,
        maxOutputTokens |-> 1024, safetySettings |-> [values |-> <<"BLOCK_NONE">>]] >>

GoogleSearchTool == [googleSearch |-> EmptyMap]

\* options.useGoogleSearchGrounding === true
GroundingRequested(options) ==
    Has(options, "useGoogleSearchGrounding") /\ options["useGoogleSearchGrounding"] = TRUE

\* Faulty variant: grounding applied whenever requested
GroundingAppliesAlways(cachedContentName, options) == GroundingRequested(options)

\* grounding is requested and not overruled by a cache reference
GroundingApplies(cachedContentName, options) ==
    GroundingRequested(options) /\ ~HasCache(cachedContentName)

\* const temperature = ... ; const baseConfig = {...} and the optional
\* parameters added to it (credentials, project and location are plumbing
\* that no handle operation reads)
BaseConfig(cachedContentName, options) ==
    LET temperature == IF Has(options, "temperature") THEN options["temperature"]
                       ELSE DefaultTemperature
        topP == IF Has(options, "topP") THEN options["topP"] ELSE DefaultTopP
        topK == IF Has(options, "topK") THEN options["topK"] ELSE DefaultTopK
        \* options.maxOutputTokens || 8192
        maxOutputTokens == IF Has(options, "maxOutputTokens") /\ options["maxOutputTokens"] # 0
                           THEN options["maxOutputTokens"] ELSE DefaultMaxOutputTokens
        base == [maxOutputTokens |-> maxOutputTokens, temperature |-> temperature,
                 topP |-> topP, topK |-> topK, callbacks |-> <<"N8nLlmTracing">>]
        withThinking == IF Has(options, "thinkingBudget")
                        THEN Spread(base, [thinkingBudget |-> options["thinkingBudget"]])
                        ELSE base
        withSafety == IF Has(options, "safetySettings")
                      THEN Spread(withThinking,
                                  [safetySettings |-> options["safetySettings"].values])
                      ELSE withThinking
    IN  IF GroundingApplies(cachedContentName, options)
        THEN Spread(withSafety, [tools |-> <<GoogleSearchTool>>])
        ELSE withSafety

\* Identity fields of a ChatVertexAI instance that the host probes
ModelIdentity ==
    [lc_namespace |-> <<"langchain", "chat_models", "vertexai">>,
     _modelType |-> "base_chat_model", _llmType |-> "vertexai",
     caller |-> "AsyncCaller", verbose |-> FALSE, name |-> "undefined"]

\* new ChatVertexAI(baseConfig).  hasBindTools / hasWithStructuredOutput say
\* whether the installed client class has the method; bindVia says whether
\* its bindTools builds the binding with bind (kwargs) or withConfig (config)
NewChatVertexAI(baseConfig, hasBindTools, hasWithStructuredOutput, bindVia) ==
    [params |-> [k \in (DOMAIN baseConfig) \ {"callbacks"} |-> baseConfig[k]],
     callbacks |-> baseConfig["callbacks"],
     bindTools |-> IF hasBindTools THEN "native" ELSE "none",
     withStructuredOutput |-> IF hasWithStructuredOutput THEN "native" ELSE "none",
     bindVia |-> bindVia,
     ident |-> ModelIdentity]

\* Faulty variant: the presence of bindTools not checked
LacksBindToolsUnchecked(m) == FALSE

\* typeof model.bindTools !== 'function'
LacksBindTools(m) == m.bindTools = "none"

NoModel ==
    [params |-> EmptyMap, callbacks |-> <<>>, bindTools |-> "none",
     withStructuredOutput |-> "none", bindVia |-> "bind", ident |-> EmptyMap]

---------------------------------------------------------------------------
(* Tools the host passes to bindTools *)

\* A tool with name, description and a Zod schema
ToolA == [name |-> "toolA", description |-> "does A", schema |-> "zodA",
          ctor |-> "DynamicStructuredTool"]
\* A tool without schema and without description
ToolB == [name |-> "toolB", description |-> "", schema |-> "none", ctor |-> "DynamicTool"]
\* A tool without name whose schema zodToJsonSchema cannot convert
ToolC == [name |-> "", description |-> "does C", schema |-> "zodBad", ctor |-> "CustomTool"]

ToolSet == {ToolA, ToolB, ToolC}

\* The tool lists the host binds: up to MaxTools different tools, in any order
ToolLists ==
    {tools \in UNION {[1..n -> ToolSet] : n \in 0..MaxTools} :
        \A i, j \in 1..Len(tools) : tools[i] = tools[j] => i = j}

\* The options the host passes to bindTools (none, or call options)
BindOptions == << EmptyMap, [tool_choice |-> "auto", cachedContent |-> <<"o">>] >>

\* The configs the host passes to withConfig
HostConfigs == << EmptyMap, [callbacks |-> <<"hostCallbacks">>] >>

\* zodToJsonSchema(t.schema): throws on a schema it cannot convert
ZodThrows(schema) == schema = "zodBad"

ZodToJsonSchema(schema) == [type |-> "object", definition |-> schema]

\* t.name || t.constructor.name
ToolName(t) == IF t.name # "" THEN t.name ELSE t.ctor

---------------------------------------------------------------------------
(* The runnables of the client library, as the node uses them *)

\* A RunnableBinding around the base model: none of the model's methods or
\* identity fields, only what the class itself defines
RunnableBinding(kwargs, config) ==
    [kind |-> "binding", kwargs |-> kwargs, config |-> config,
     bindTools |-> "none", withConfig |-> "native", withStructuredOutput |-> "none",
     props |-> [lc_namespace |-> <<"langchain_core", "runnables">>]]

\* The base model itself, returned as the handle
ModelHandle(m) ==
    [kind |-> "model", kwargs |-> EmptyMap, config |-> EmptyMap,
     bindTools |-> m.bindTools, withConfig |-> "native",
     withStructuredOutput |-> m.withStructuredOutput, props |-> m.ident]

\* The client's conversion of a tool list: the function tools are gathered
\* in one functionDeclarations entry
ConvertToGeminiTools(tools) ==
    IF tools = <<>> THEN <<>>
    ELSE << [functionDeclarations |-> [i \in 1..Len(tools) |-> ToolName(tools[i])]] >>

\* ChatVertexAI.bindTools(tools, options) of the client library
NativeBindTools(m, tools, options) ==
    LET callOptions == Spread([tools |-> ConvertToGeminiTools(tools)], options)
    IN  IF m.bindVia = "bind" THEN RunnableBinding(callOptions, EmptyMap)
        ELSE RunnableBinding(EmptyMap, callOptions)

\* binding.bind(kwargs): a new binding with the kwargs spread over its own
RunnableBindingBind(binding, kwargs) ==
    RunnableBinding(Spread(binding.kwargs, kwargs), binding.config)

\* binding.withConfig(config): a new binding with the config spread over its own
RunnableBindingWithConfig(binding, config) ==
    RunnableBinding(binding.kwargs, Spread(binding.config, config))

\* The call options a handle adds to a generation call: its config, then
\* its kwargs merged over it
CallOptions(h) == Spread(h.config, h.kwargs)

---------------------------------------------------------------------------
(* The handle supplyData builds when a cache reference is present
   (lines 350-467) *)

\* Faulty variant: the binding without the model's properties, and
\* withStructuredOutput set whether or not the model has it
BoundModelBare(m, cachedContentName) ==
    LET binding == RunnableBinding([cachedContent |-> cachedContentName], EmptyMap)
    IN  [binding EXCEPT
            !.withConfig = "override",
            !.bindTools = "cacheGuard",
            !.withStructuredOutput = "model"]

\* new RunnableBinding({bound: model, kwargs: {cachedContent}, config: {}})
\* with withConfig and bindTools replaced and the model's properties copied
BoundModel(m, cachedContentName) ==
    LET binding == RunnableBinding([cachedContent |-> cachedContentName], EmptyMap)
    IN  [binding EXCEPT
            !.withConfig = "override",
            !.bindTools = "cacheGuard",
            !.withStructuredOutput =
                IF m.withStructuredOutput # "none" THEN "model" ELSE "none",
            !.props = Spread(binding.props, m.ident)]

\* Faulty variant: the conversion taken also where it fails
ToolParametersUnguarded(t) ==
    IF t.schema # "none" THEN ZodToJsonSchema(t.schema) ELSE EmptyMap

\* parameters of one tool: {} unless the schema is present and converts
ToolParameters(t) ==
    IF t.schema # "none" /\ ~ZodThrows(t.schema) THEN ZodToJsonSchema(t.schema)
    ELSE EmptyMap

\* Faulty variant: the entries in the reverse order of the tools
ManualConversionReversed(toolsList) ==
    [i \in 1..Len(toolsList) |->
        [name |-> ToolName(toolsList[Len(toolsList) + 1 - i]),
         description |-> toolsList[Len(toolsList) + 1 - i].description,
         parameters |-> ToolParameters(toolsList[Len(toolsList) + 1 - i])]]

\* toolsList.map(...): {name, description, parameters} per tool
ManualConversion(toolsList) ==
    [i \in 1..Len(toolsList) |->
        [name |-> ToolName(toolsList[i]),
         description |-> toolsList[i].description,
         parameters |-> ToolParameters(toolsList[i])]]

\* JSON.stringify(value, null, 2): the text of the value
JSONStringify(value) == [json |-> value]

\* the Error thrown on the tools + cache conflict
ConflictError(toolsList) ==
    [name |-> "Error", message |-> "CONFLICT: Tools + Cache detected",
     toolConfigJson |-> JSONStringify(ManualConversion(toolsList))]

\* Faulty variant: the conflict raised for an empty tool list too
ConflictDetectedAlways(toolsList, cachedContentName) ==
    Len(toolsList) >= 0 /\ cachedContentName # <<>>

\* toolsList.length > 0 && cachedContentName
ConflictDetected(toolsList, cachedContentName) ==
    Len(toolsList) > 0 /\ cachedContentName # <<>>

\* Faulty variant: the cache reference spread under the binding's kwargs
RebindCacheUnder(modelWithTools, cachedContentName) ==
    RunnableBinding(Spread([cachedContent |-> cachedContentName], modelWithTools.kwargs),
                    modelWithTools.config)

\* Faulty variant: the cache reference of the handle bound before is kept
\* and the name appended to it
RebindCacheAccumulating(modelWithTools, cachedContentName) ==
    RunnableBindingBind(modelWithTools,
        [cachedContent |->
            IF derived.via = "bindTools" /\ Has(derived.obj.kwargs, "cachedContent")
            THEN derived.obj.kwargs["cachedContent"] \o cachedContentName
            ELSE cachedContentName])

\* modelWithTools.bind({cachedContent: cachedContentName})
RebindCache(modelWithTools, cachedContentName) ==
    RunnableBindingBind(modelWithTools, [cachedContent |-> cachedContentName])

NoObject == RunnableBinding(EmptyMap, EmptyMap)

\* The outcome of a call on a handle: the object returned or the error
\* thrown, and the handle itself (self) and the base model (model) as the
\* call leaves them
Returned(object, self, m) ==
    [outcome |-> "return", error |-> EmptyMap, object |-> object, self |-> self, model |-> m]

Thrown(error, self, m) ==
    [outcome |-> "throw", error |-> error, object |-> NoObject, self |-> self, model |-> m]

\* Faulty variant: the tools bound in place on the handle itself
CachedBindToolsInPlace(self, m, cachedContentName, tools, options) ==
    LET bound == [self EXCEPT !.kwargs = Spread(@, NativeBindTools(m, tools, options).kwargs)]
    IN  IF ConflictDetected(tools, cachedContentName)
        THEN Thrown(ConflictError(tools), bound, m)
        ELSE Returned(bound, bound, m)

\* boundModel.bindTools = function (tools, options) {...}, called on the
\* handle self
CachedBindTools(self, m, cachedContentName, tools, options) ==
    LET modelWithTools == NativeBindTools(m, tools, options)
        toolsList == tools
    IN  IF ConflictDetected(toolsList, cachedContentName)
        THEN Thrown(ConflictError(toolsList), self, m)
        ELSE Returned(RebindCache(modelWithTools, cachedContentName), self, m)

\* model.bindTools = function(tools, options) {...} of the no-cache path
\* with grounding: googleSearch appended to the binding's kwargs.tools
GroundingBindTools(m, tools, options) ==
    LET modelWithTools == NativeBindTools(m, tools, options)
        existingTools == IF Has(modelWithTools.kwargs, "tools")
                         THEN modelWithTools.kwargs["tools"] ELSE <<>>
        mergedTools == existingTools \o <<GoogleSearchTool>>
    IN  [modelWithTools EXCEPT !.kwargs = Spread(@, [tools |-> mergedTools])]

\* model.withStructuredOutput(schema), which boundModel.withStructuredOutput
\* is bound to: a chain on the base model with the extraction tool
ModelWithStructuredOutput(m) ==
    LET callOptions == [tools |-> << [functionDeclarations |-> <<"extract">>] >>,
                        tool_choice |-> "extract"]
        llm == IF m.bindVia = "bind" THEN RunnableBinding(callOptions, EmptyMap)
               ELSE RunnableBinding(EmptyMap, callOptions)
    IN  [llm EXCEPT !.kind = "sequence"]

\* handle.bindTools(tools, options), by the implementation the handle exposes
CallBindTools(h, m, cachedContentName, tools, options) ==
    CASE h.bindTools = "cacheGuard" -> CachedBindTools(h, m, cachedContentName, tools, options)
      [] h.bindTools = "native" -> Returned(NativeBindTools(m, tools, options), h, m)
      [] h.bindTools = "grounding" -> Returned(GroundingBindTools(m, tools, options), h, m)

\* Faulty variant: the config applied to the wrapper only
CachedWithConfigWrapperOnly(self, m, config) ==
    Returned(RunnableBindingWithConfig(self, config), self, m)

\* boundModel.withConfig = function(config) {...}: the binding's own
\* withConfig, and the callbacks of the config put on the base model
CachedWithConfig(self, m, config) ==
    LET configuredModel == RunnableBindingWithConfig(self, config)
    IN  Returned(configuredModel, self,
                 IF Has(config, "callbacks") THEN [m EXCEPT !.callbacks = config["callbacks"]]
                 ELSE m)

\* handle.withConfig(config), by the implementation the handle exposes
CallWithConfig(h, m, config) ==
    CASE h.withConfig = "override" -> CachedWithConfig(h, m, config)
      [] h.kind = "model" -> Returned(RunnableBinding(EmptyMap, config), h, m)
      [] OTHER -> Returned([RunnableBindingWithConfig(h, config) EXCEPT !.kind = h.kind], h, m)

\* handle.withStructuredOutput(schema): the model's, bound to the model
CallWithStructuredOutput(h, m) == Returned(ModelWithStructuredOutput(m), h, m)

---------------------------------------------------------------------------
(* Specification Spec: one node invocation and the host's calls on its handle *)

NoHandle == [obj |-> NoObject, via |-> "none", parent |-> "none", depth |-> 0]

NoCall ==
    [op |-> "none", target |-> "none", tools |-> <<>>, options |-> EmptyMap,
     outcome |-> "none", error |-> EmptyMap, sent |-> EmptyMap]

ParserIdle ==
    /\ result = EmptyMap
    /\ usage = EmptyMap
    /\ ppc = "idle"

\* the runIds of the LLM runs
Runs == 1..MaxRuns

\* a run index that is undefined, and one that is the number n
Undefined == [defined |-> FALSE, value |-> 0]

Defined(n) == [defined |-> TRUE, value |-> n]

\* no call of the host made yet
NoEmit ==
    [call |-> "none", handler |-> "none", runId |-> 0, runIndex |-> 0,
     json |-> EmptyMap, error |-> EmptyMap, sourceNodeRunIndex |-> Undefined,
     output |-> EmptyMap, thrown |-> EmptyMap, after |-> EmptyMap]

\* new N8nLlmTracing(this): no run details, no parent run index; the host
\* has no run entry of the node yet
TracingIdle ==
    /\ runsMap = EmptyMap
    /\ parentRunIndex = Undefined
    /\ runs = [r \in Runs |-> [at |-> "idle", index |-> 0]]
    /\ runData = <<>>
    /\ emitted = NoEmit

Init ==
    /\ pc = "init"
    /\ node = [cachedContentName |-> <<>>, options |-> EmptyMap]
    /\ model = NoModel
    /\ response = NoHandle
    /\ derived = NoHandle
    /\ last = NoCall
    /\ ParserIdle
    /\ TracingIdle

\* supplyData throws
SupplyFails(m, error) ==
    /\ pc' = "failed"
    /\ model' = m
    /\ response' = NoHandle
    /\ last' = [NoCall EXCEPT !.op = "supplyData", !.outcome = "throw", !.error = error]

\* supplyData returns { response: object }
SupplyReturns(m, object) ==
    /\ pc' = "supplied"
    /\ model' = m
    /\ response' = [obj |-> object, via |-> "supplyData", parent |-> "none", depth |-> 0]
    /\ last' = [NoCall EXCEPT !.op = "supplyData", !.outcome = "return"]

\* supplyData: reads the parameters, builds the base model, returns the
\* handle or throws
SupplyData(cachedContentName, options, hasBindTools, hasWithStructuredOutput, bindVia) ==
    LET m == NewChatVertexAI(BaseConfig(cachedContentName, options), hasBindTools,
                             hasWithStructuredOutput, bindVia)
        hasGrounding == GroundingRequested(options)
    IN  /\ pc = "init"
        /\ node' = [cachedContentName |-> cachedContentName, options |-> options]
        /\ IF HasCache(cachedContentName)
           THEN IF LacksBindTools(m)
                THEN SupplyFails(m, [name |-> "Error",
                         message |-> "ChatVertexAI model does not support tool binding"])
                ELSE SupplyReturns(m, BoundModel(m, cachedContentName))
           ELSE IF hasGrounding
                THEN IF m.bindTools = "none"
                     \* model.bindTools.bind(model) on a model without bindTools
                     THEN SupplyFails(m, [name |-> "TypeError",
                              message |-> "bindTools is undefined"])
                     ELSE SupplyReturns([m EXCEPT !.bindTools = "grounding"],
                                        ModelHandle([m EXCEPT !.bindTools = "grounding"]))
                ELSE SupplyReturns(m, ModelHandle(m))
        /\ UNCHANGED derived
        /\ UNCHANGED parserVars
        /\ UNCHANGED tracingVars

Targets == {"response", "derived"}

\* the handle a call of the host is made on
Target(t) == IF t = "response" THEN response ELSE derived

\* The handle t as the call left it
Kept(t, self) ==
    IF t = "response" THEN [response EXCEPT !.obj = self] ELSE [derived EXCEPT !.obj = self]

\* The outcome of a call on handle t: the model and the handle as the call
\* left them, the call recorded in last and, when it returned, the returned
\* handle as the derived handle the host now holds
Record(op, t, tools, options, res) ==
    /\ model' = res.model
    /\ IF res.outcome = "return"
       THEN /\ Target(t).depth < MaxDepth
            /\ response' = IF t = "response" THEN Kept(t, res.self) ELSE response
            /\ derived' = [obj |-> res.object, via |-> op, parent |-> t,
                           depth |-> Target(t).depth + 1]
            /\ last' = [op |-> op, target |-> t, tools |-> tools, options |-> options,
                        outcome |-> "return", error |-> EmptyMap, sent |-> EmptyMap]
       ELSE /\ response' = IF t = "response" THEN Kept(t, res.self) ELSE response
            /\ derived' = IF t = "derived" THEN Kept(t, res.self) ELSE derived
            /\ last' = [op |-> op, target |-> t, tools |-> tools, options |-> options,
                        outcome |-> "throw", error |-> res.error, sent |-> EmptyMap]

\* the host calls handle.bindTools(tools, options), on a handle that has it
BindTools(t, tools, options) ==
    /\ pc = "supplied"
    /\ Target(t).via # "none"
    /\ Target(t).obj.bindTools # "none"
    /\ Record("bindTools", t, tools, options,
              CallBindTools(Target(t).obj, model, node.cachedContentName, tools, options))
    /\ UNCHANGED <<pc, node>>
    /\ UNCHANGED parserVars
    /\ UNCHANGED tracingVars

\* the host calls handle.withConfig(config)
WithConfig(t, config) ==
    /\ pc = "supplied"
    /\ Target(t).via # "none"
    /\ Record("withConfig", t, <<>>, config, CallWithConfig(Target(t).obj, model, config))
    /\ UNCHANGED <<pc, node>>
    /\ UNCHANGED parserVars
    /\ UNCHANGED tracingVars

\* the host calls handle.withStructuredOutput(schema), on a handle that has it
WithStructuredOutput(t) ==
    /\ pc = "supplied"
    /\ Target(t).via # "none"
    /\ Target(t).obj.withStructuredOutput # "none"
    /\ Record("withStructuredOutput", t, <<>>, EmptyMap,
              CallWithStructuredOutput(Target(t).obj, model))
    /\ UNCHANGED <<pc, node>>
    /\ UNCHANGED parserVars
    /\ UNCHANGED tracingVars

\* the host invokes generation through handle t: the call options that
\* reach the base model
Invoke(t) ==
    /\ pc = "supplied"
    /\ Target(t).via # "none"
    /\ last' = [NoCall EXCEPT !.op = "invoke", !.target = t, !.outcome = "return",
                              !.sent = CallOptions(Target(t).obj)]
    /\ UNCHANGED <<pc, node, model, response, derived>>
    /\ UNCHANGED parserVars
    /\ UNCHANGED tracingVars

Next ==
    \/ \E n \in 1..Len(CachedContentNames), o \in 1..Len(NodeOptions),
          hasBindTools \in BOOLEAN, hasWithStructuredOutput \in BOOLEAN,
          bindVia \in {"bind", "withConfig"} :
            SupplyData(CachedContentNames[n], NodeOptions[o], hasBindTools,
                       hasWithStructuredOutput, bindVia)
    \/ \E t \in Targets, tools \in ToolLists, o \in 1..Len(BindOptions) :
            BindTools(t, tools, BindOptions[o])
    \/ \E t \in Targets, c \in 1..Len(HostConfigs) : WithConfig(t, HostConfigs[c])
    \/ \E t \in Targets : WithStructuredOutput(t)
    \/ \E t \in Targets : Invoke(t)

Spec == Init /\ [][Next]_vars

---------------------------------------------------------------------------
(* Properties of the cache binding, checked under Spec *)

\* supplyData returned a handle that carries a cache reference (the name is
\* non-empty in the code's sense: non-empty after trimming)
Cached == pc = "supplied" /\ HasCache(node.cachedContentName)

\* the last call was bindTools on the handle supplyData returned
BoundOnResponse == last.op = "bindTools" /\ last.target = "response"

\* the cachedContent a handle injects on generation is the configured name
InjectsCache(h) ==
    /\ Has(CallOptions(h.obj), "cachedContent")
    /\ CallOptions(h.obj)["cachedContent"] = node.cachedContentName

C2_EveryDerivedHandleInjectsCache ==
    Cached =>
        /\ InjectsCache(response)
        /\ (derived.via # "none" /\ derived.parent = "response") => InjectsCache(derived)

\* C3: on a cached handle, bindTools with an empty tool list returns a
\* handle that injects the parent's cachedContent.
C3_EmptyToolsKeepCache ==
    (Cached /\ BoundOnResponse /\ last.tools = <<>>) =>
        /\ last.outcome = "return"
        /\ derived.via = "bindTools"
        /\ derived.parent = "response"
        /\ InjectsCache(derived)

\* C3 witness: bindTools([]) returned, with host options that themselves
\* carry another cachedContent
C3_Witness ==
    /\ Cached /\ BoundOnResponse
    /\ last.tools = <<>>
    /\ last.outcome = "return"
    /\ Has(last.options, "cachedContent")
    /\ InjectsCache(derived)

\* C4: with a cache reference and a base model without bindTools,
\* supplyData throws and returns no handle; a returned cached handle always
\* has the guard as bindTools over a model that has bindTools.
C4_MissingBindToolsFailsAtOnce ==
    /\ (pc # "init" /\ HasCache(node.cachedContentName) /\ model.bindTools = "none") =>
            /\ pc = "failed"
            /\ response = NoHandle
            /\ last.op = "supplyData" /\ last.outcome = "throw"
            /\ last.error.message = "ChatVertexAI model does not support tool binding"
    /\ Cached => (model.bindTools # "none" /\ response.obj.bindTools = "cacheGuard")

\* C4 witness: supplyData failed on a cached configuration
C4_Witness ==
    /\ pc = "failed"
    /\ HasCache(node.cachedContentName)
    /\ model.bindTools = "none"

\* C5 (as claimed): the handle a successful bindTools returns on a cached
\* handle has bindTools (the guard) and the identity fields of supplyData's
\* handle.
C5_BindToolsReturnsBoundHandle ==
    (Cached /\ derived.via = "bindTools" /\ derived.parent = "response") =>
        /\ derived.obj.bindTools = "cacheGuard"
        /\ \A f \in {"lc_namespace", "_modelType", "_llmType"} :
                Has(derived.obj.props, f) /\ derived.obj.props[f] = response.obj.props[f]

\* C6: a bindTools call on a cached handle, whether it returns or throws,
\* leaves the handle and the base model as they were: the handle still
\* injects exactly {cachedContent: name}, without tools.
C6_BindToolsMutatesNothing ==
    [][(Cached /\ BoundOnResponse') =>
            /\ response' = response
            /\ model' = model
            /\ CallOptions(response'.obj) = [cachedContent |-> node.cachedContentName]]_vars

\* C6 witness: bindTools has returned and has thrown on a cached handle
C6_Witness ==
    /\ Cached /\ BoundOnResponse
    /\ last.outcome = "throw"
    /\ derived.via = "bindTools"

C8_CacheOverridesGrounding ==
    (pc # "init" /\ GroundingRequested(node.options) /\ HasCache(node.cachedContentName)) =>
        /\ ~Has(model.params, "tools")
        /\ model.bindTools # "grounding"
        /\ pc = "failed" => model.bindTools = "none"
        /\ pc = "supplied" =>
                /\ response.obj.kind = "binding"
                /\ response.obj.bindTools = "cacheGuard"
                /\ InjectsCache(response)

\* C8 witness: a cached handle was returned although grounding was enabled
C8_Witness ==
    /\ Cached
    /\ GroundingRequested(node.options)
    /\ response.obj.kind = "binding"

---------------------------------------------------------------------------
(* N8nLlmTracing.options.tokensUsageParser (part_001, lines 42-98) *)

\* an optional part of an envelope: absent, or present with a value
Absent == [present |-> FALSE, value |-> EmptyMap]

Present(value) == [present |-> TRUE, value |-> value]

\* the key k with the part's value when the part is present
Field(k, part) == IF part.present THEN [x \in {k} |-> part.value] ELSE EmptyMap

\* result.llmOutput.tokenUsage as the model may return it
TokenUsageShapes ==
    << Absent,
       Present(EmptyMap),
       Present([completionTokens |-> 0, promptTokens |-> 0]),
       Present([completionTokens |-> 100, promptTokens |-> 50]),
       Present([promptTokens |-> 50]),
       Present([completionTokens |-> 100, promptTokens |-> 0]) >>

\* usage metadata in snake_case; d tells the values of two places apart
SnakeShapes(d) ==
    << Absent,
       Present(EmptyMap),
       Present([input_tokens |-> 6 + d, output_tokens |-> 336 + d,
                input_token_details |-> [cache_read |-> 55176 + d]]),
       Present([input_tokens |-> 6 + d, output_tokens |-> 336 + d]),
       Present([input_tokens |-> 0, output_tokens |-> 0,
                input_token_details |-> [cache_read |-> 5000 + d]]),
       Present([input_tokens |-> 8 + d, output_tokens |-> 0,
                input_token_details |-> EmptyMap]) >>

\* result.llmOutput.usageMetadata, with either of its alternative field names
CamelShapes ==
    << Absent,
       Present([candidatesTokenCount |-> 10, promptTokenCount |-> 20,
                cachedContentTokenCount |-> 30]),
       Present([output_tokens |-> 11, input_tokens |-> 21,
                cached_content_token_count |-> 31]),
       Present([candidatesTokenCount |-> 0, output_tokens |-> 11,
                promptTokenCount |-> 0, input_tokens |-> 21,
                cachedContentTokenCount |-> 0, cached_content_token_count |-> 31]),
       Present([candidatesTokenCount |-> 12, promptTokenCount |-> 22]) >>

\* where the first generation's message keeps its usage metadata: in its
\* kwargs (a serialized message) or on the message itself (a live message)
MessagePlaces == <<"kwargs", "message">>

\* result.generations: none, or one generation with text and, when there is
\* usage metadata, a message that carries it at the given place
Generations(place, messageUsage) ==
    LET message ==
            IF place = "kwargs"
            THEN [kwargs |-> Spread([content |-> "hi"], Field("usage_metadata", messageUsage))]
            ELSE Spread([content |-> "hi", kwargs |-> EmptyMap],
                        Field("usage_metadata", messageUsage))
    IN  << << Spread([text |-> "hi"], [message |-> message]) >> >>

\* a result envelope
Envelope(hasLlmOutput, tokenUsage, snake, camel, generations) ==
    Spread([generations |-> generations],
           IF hasLlmOutput
           THEN [llmOutput |-> Spread(Spread(Field("tokenUsage", tokenUsage),
                                             Field("usage_metadata", snake)),
                                      Field("usageMetadata", camel))]
           ELSE EmptyMap)

\* a ?? b
Nullish(m, k, dflt) == IF Has(m, k) THEN m[k] ELSE dflt

\* a?.b where a may be undefined: the object under key k, or nothing
Part(m, k) == IF Has(m, k) THEN Present(m[k]) ELSE Absent

LlmOutput(res) == Nullish(res, "llmOutput", EmptyMap)

\* Path 1: result.llmOutput.tokenUsage
Path1(res) ==
    LET tokenUsage == Nullish(LlmOutput(res), "tokenUsage", EmptyMap)
    IN  [found |-> Has(LlmOutput(res), "tokenUsage"),
         completionTokens |-> Nullish(tokenUsage, "completionTokens", 0),
         promptTokens |-> Nullish(tokenUsage, "promptTokens", 0),
         cachedTokens |-> 0]

\* the counts of a snake_case usage metadata object
SnakeCounts(usageMetadata) ==
    [found |-> usageMetadata.present,
     completionTokens |-> Nullish(usageMetadata.value, "output_tokens", 0),
     promptTokens |-> Nullish(usageMetadata.value, "input_tokens", 0),
     cachedTokens |-> Nullish(Nullish(usageMetadata.value, "input_token_details", EmptyMap),
                              "cache_read", 0)]

\* Path 2: result.llmOutput.usage_metadata
Path2(res) == SnakeCounts(Part(LlmOutput(res), "usage_metadata"))

\* Faulty variant: only the camelCase field names are read
Path3CamelOnly(res) ==
    LET usageMetadata == Part(LlmOutput(res), "usageMetadata")
        um == usageMetadata.value
    IN  [found |-> usageMetadata.present,
         completionTokens |-> Nullish(um, "candidatesTokenCount", 0),
         promptTokens |-> Nullish(um, "promptTokenCount", 0),
         cachedTokens |-> Nullish(um, "cachedContentTokenCount", 0)]

\* Path 3: result.llmOutput.usageMetadata; a ?? b ?? 0 takes b only when a
\* is absent
Path3(res) ==
    LET usageMetadata == Part(LlmOutput(res), "usageMetadata")
        um == usageMetadata.value
    IN  [found |-> usageMetadata.present,
         completionTokens |-> Nullish(um, "candidatesTokenCount", Nullish(um, "output_tokens", 0)),
         promptTokens |-> Nullish(um, "promptTokenCount", Nullish(um, "input_tokens", 0)),
         cachedTokens |-> Nullish(um, "cachedContentTokenCount",
                                  Nullish(um, "cached_content_token_count", 0))]

\* result?.generations?.[0]?.[0] is there
HasFirstGeneration(res) ==
    /\ Has(res, "generations")
    /\ Len(res["generations"]) > 0
    /\ Len(res["generations"][1]) > 0

\* Faulty variant: the usage metadata read on the message itself
Path4AtMessage(res) ==
    IF HasFirstGeneration(res)
    THEN LET firstGen == res["generations"][1][1]
             message == Nullish(firstGen, "message", EmptyMap)
         IN  SnakeCounts(Part(message, "usage_metadata"))
    ELSE SnakeCounts(Absent)

\* Path 4: firstGen?.message?.kwargs?.usage_metadata
Path4(res) ==
    IF HasFirstGeneration(res)
    THEN LET firstGen == res["generations"][1][1]
             message == Nullish(firstGen, "message", EmptyMap)
             kwargs == Nullish(message, "kwargs", EmptyMap)
         IN  SnakeCounts(Part(kwargs, "usage_metadata"))
    ELSE SnakeCounts(Absent)

\* what path p reads from the envelope
PathCounts(res, p) ==
    CASE p = 1 -> Path1(res)
      [] p = 2 -> Path2(res)
      [] p = 3 -> Path3(res)
      [] p = 4 -> Path4(res)

\* Faulty variant: a path without cache-read count keeps the count read before
TryPathKeepingCached(counts, path) ==
    IF counts.completionTokens = 0 /\ counts.promptTokens = 0 /\ path.found
    THEN [path EXCEPT !.cachedTokens = IF @ = 0 THEN counts.cachedTokens ELSE @]
    ELSE counts

\* Faulty variant: a path is taken only when it has a non-zero token count
TryPathOnlyYielding(counts, path) ==
    IF counts.completionTokens = 0 /\ counts.promptTokens = 0 /\ path.found
          /\ (path.completionTokens # 0 \/ path.promptTokens # 0)
    THEN path ELSE counts

\* if (completionTokens === 0 && promptTokens === 0) { if (found) {...} }:
\* the counts after trying a path, given the counts so far
TryPath(counts, path) ==
    IF counts.completionTokens = 0 /\ counts.promptTokens = 0 /\ path.found
    THEN path ELSE counts

\* Faulty variant: the cached count added into the total
TotalTokensWithCached(counts) ==
    counts.completionTokens + counts.promptTokens + counts.cachedTokens

\* totalTokens: completionTokens + promptTokens
TotalTokens(counts) == counts.completionTokens + counts.promptTokens

\* Faulty variant: the cachedTokens key written even when the count is 0
TokenUsageAlwaysCached(counts) ==
    [completionTokens |-> counts.completionTokens,
     promptTokens |-> counts.promptTokens,
     totalTokens |-> TotalTokens(counts),
     cachedTokens |-> counts.cachedTokens]

\* Faulty variant: the cached count reported among the prompt tokens
TokenUsageCountingCached(counts) ==
    Spread([completionTokens |-> counts.completionTokens,
            promptTokens |-> counts.promptTokens + counts.cachedTokens,
            totalTokens |-> TotalTokens(counts)],
           IF counts.cachedTokens > 0 THEN [cachedTokens |-> counts.cachedTokens]
           ELSE EmptyMap)

\* the record built from the counts: cachedTokens only when positive
TokenUsage(counts) ==
    Spread([completionTokens |-> counts.completionTokens,
            promptTokens |-> counts.promptTokens,
            totalTokens |-> TotalTokens(counts)],
           IF counts.cachedTokens > 0 THEN [cachedTokens |-> counts.cachedTokens]
           ELSE EmptyMap)

\* tokensUsageParser(result)
TokensUsageParser(res) ==
    LET after1 == Path1(res)
        after2 == TryPath(after1, Path2(res))
        after3 == TryPath(after2, Path3(res))
        after4 == TryPath(after3, Path4(res))
    IN  TokenUsage(after4)

---------------------------------------------------------------------------
(* Specification SpecParser: the parser applied to one result envelope *)

BinderIdle ==
    /\ pc = "init"
    /\ node = [cachedContentName |-> <<>>, options |-> EmptyMap]
    /\ model = NoModel
    /\ response = NoHandle
    /\ derived = NoHandle
    /\ last = NoCall

InitParser ==
    /\ BinderIdle
    /\ TracingIdle
    /\ ppc = "ready"
    /\ usage = EmptyMap
    /\ \E hasLlmOutput \in BOOLEAN, a \in 1..Len(TokenUsageShapes),
          b \in 1..Len(SnakeShapes(0)), c \in 1..Len(CamelShapes),
          d \in 1..Len(SnakeShapes(1)), place \in 1..Len(MessagePlaces),
          hasGenerations \in BOOLEAN :
            result = Envelope(hasLlmOutput, TokenUsageShapes[a], SnakeShapes(0)[b],
                              CamelShapes[c],
                              IF hasGenerations
                              THEN Generations(MessagePlaces[place], SnakeShapes(1)[d])
                              ELSE <<>>)

\* the parser is applied to the envelope
Parse ==
    /\ ppc = "ready"
    /\ usage' = TokensUsageParser(result)
    /\ ppc' = "parsed"
    /\ UNCHANGED result
    /\ UNCHANGED binderVars
    /\ UNCHANGED tracingVars

NextParser == Parse

SpecParser == InitParser /\ [][NextParser]_vars

---------------------------------------------------------------------------
(* Properties of the usage parser, checked under SpecParser *)

\* path p yields tokens: a non-zero prompt or completion count
Yields(res, p) ==
    /\ PathCounts(res, p).found
    /\ (PathCounts(res, p).promptTokens # 0 \/ PathCounts(res, p).completionTokens # 0)

\* path p is the first path, in the order 1..4, that yields tokens
Selected(res, p) == Yields(res, p) /\ \A q \in 1..(p - 1) : ~Yields(res, q)

\* C9: the record's totalTokens is promptTokens + completionTokens exactly,
\* whether or not it has a cachedTokens key.
C9_TotalIsPromptPlusCompletion ==
    ppc = "parsed" => usage.totalTokens = usage.promptTokens + usage.completionTokens

\* C9 witness: a record with a cached count, prompt 6 and completion 336
C9_Witness ==
    /\ ppc = "parsed"
    /\ Has(usage, "cachedTokens") /\ usage.cachedTokens = 55176
    /\ usage.promptTokens = 6 /\ usage.completionTokens = 336

\* C10: when a path is the first, in the order tokenUsage, usage_metadata,
\* usageMetadata, first-generation message, to yield a non-zero prompt or
\* completion count, promptTokens, completionTokens and cachedTokens of
\* the record are all what that one path reads.
C10_FirstYieldingPathGivesAllFields ==
    ppc = "parsed" =>
        \A p \in 1..4 :
            Selected(result, p) =>
                LET counts == PathCounts(result, p)
                IN  /\ usage.promptTokens = counts.promptTokens
                    /\ usage.completionTokens = counts.completionTokens
                    /\ IF counts.cachedTokens > 0
                       THEN Has(usage, "cachedTokens") /\ usage.cachedTokens = counts.cachedTokens
                       ELSE ~Has(usage, "cachedTokens")

\* C10 witness: path 2 is present with a cache-read count but no tokens,
\* and path 4, which reads no cache-read count, is the one selected
C10_Witness ==
    /\ ppc = "parsed"
    /\ Path2(result).found /\ Path2(result).cachedTokens > 0
    /\ Selected(result, 4)
    /\ Path4(result).cachedTokens = 0
    /\ usage.promptTokens = 9

\* the path whose counts the record reports: the last path, in the order
\* 1..4, that is present while no path before it yields tokens (path 1 when
\* there is none)
ReadLast(res) ==
    LET reads == {p \in 2..4 : /\ PathCounts(res, p).found
                               /\ \A q \in 1..(p - 1) : ~Yields(res, q)}
    IN  IF reads = {} THEN 1 ELSE CHOOSE p \in reads : \A q \in reads : q <= p

\* C11 as stated: the record has the cachedTokens key exactly when the
\* selected path (the first path that yields tokens) carries a non-zero
\* cache-read count, and the key then equals that count.
C11_CachedKeyIffOnSelectedPath ==
    ppc = "parsed" =>
        /\ Has(usage, "cachedTokens") <=>
                \E p \in 1..4 : Selected(result, p) /\ PathCounts(result, p).cachedTokens > 0
        /\ \A p \in 1..4 :
                (Selected(result, p) /\ PathCounts(result, p).cachedTokens > 0) =>
                    (Has(usage, "cachedTokens")
                        /\ usage.cachedTokens = PathCounts(result, p).cachedTokens)

\* C11 amended: the record has the cachedTokens key exactly when the path
\* its counts were read from last carries a non-zero cache-read count, and
\* the key then equals that count and is never 0; that path is the selected
\* path when some path yields tokens, and otherwise the last path present,
\* whose cache-read count is reported beside zero token counts.
C11_CachedKeyIffOnPathReadLast ==
    ppc = "parsed" =>
        LET counts == PathCounts(result, ReadLast(result))
        IN  /\ Has(usage, "cachedTokens") <=> counts.cachedTokens > 0
            /\ Has(usage, "cachedTokens") =>
                    (usage.cachedTokens = counts.cachedTokens /\ usage.cachedTokens # 0)
            /\ \A p \in 1..4 : Selected(result, p) => ReadLast(result) = p

\* C11 witness: the message-level path is selected and its cache_read
\* count 55177 is the record's cachedTokens
C11_Witness ==
    /\ ppc = "parsed"
    /\ Selected(result, 4)
    /\ Path4(result).cachedTokens = 55177
    /\ Has(usage, "cachedTokens") /\ usage.cachedTokens = 55177

\* C12: when no path yields a prompt or completion count, none being
\* populated included, the parser still returns a record, and its
\* promptTokens, completionTokens and totalTokens are all 0.
C12_NoTokensGivesZeroRecord ==
    (ppc = "parsed" /\ \A p \in 1..4 : ~Yields(result, p)) =>
        /\ {"promptTokens", "completionTokens", "totalTokens"} \subseteq DOMAIN usage
        /\ usage.promptTokens = 0
        /\ usage.completionTokens = 0
        /\ usage.totalTokens = 0

\* C12 witness: an envelope with no llmOutput and no generation was parsed
\* into a record of zeros
C12_Witness ==
    /\ ppc = "parsed"
    /\ ~Has(result, "llmOutput")
    /\ ~HasFirstGeneration(result)
    /\ usage.totalTokens = 0

\* the first generation's message, when the envelope has one
FirstMessage(res) ==
    IF HasFirstGeneration(res)
    THEN Nullish(res["generations"][1][1], "message", EmptyMap)
    ELSE EmptyMap

\* the record reports the counts of the snake_case usage object um
ReportsSnake(um) ==
    /\ usage.promptTokens = um.input_tokens
    /\ usage.completionTokens = um.output_tokens
    /\ IF Has(um, "input_token_details") /\ Has(um.input_token_details, "cache_read")
             /\ um.input_token_details.cache_read > 0
       THEN Has(usage, "cachedTokens")
                /\ usage.cachedTokens = um.input_token_details.cache_read
       ELSE ~Has(usage, "cachedTokens")

\* a usage object with both token counts
HasBothCounts(um) == Has(um, "input_tokens") /\ Has(um, "output_tokens")

\* C13 as stated: when the first three paths yield no tokens and the first
\* generation's message has usage_metadata with input_tokens and
\* output_tokens on the message itself, the record reports those counts.
C13_MessageUsageMetadataIsRead ==
    (/\ ppc = "parsed"
     /\ \A q \in 1..3 : ~Yields(result, q)
     /\ Has(FirstMessage(result), "usage_metadata")
     /\ HasBothCounts(FirstMessage(result)["usage_metadata"]))
        => ReportsSnake(FirstMessage(result)["usage_metadata"])

\* C13 amended: when the first three paths yield no tokens and the first
\* generation's message has usage_metadata with input_tokens and
\* output_tokens under its kwargs, the record reports those counts and the
\* cache_read count beside them.
C13_MessageKwargsUsageMetadataIsRead ==
    (/\ ppc = "parsed"
     /\ \A q \in 1..3 : ~Yields(result, q)
     /\ Has(FirstMessage(result), "kwargs")
     /\ Has(FirstMessage(result)["kwargs"], "usage_metadata")
     /\ HasBothCounts(FirstMessage(result)["kwargs"]["usage_metadata"]))
        => ReportsSnake(FirstMessage(result)["kwargs"]["usage_metadata"])

\* C13 witness: no llmOutput path yields tokens and the counts 7, 337 and
\* 55177 under message.kwargs.usage_metadata are the record's
C13_Witness ==
    /\ ppc = "parsed"
    /\ \A q \in 1..3 : ~Yields(result, q)
    /\ Has(FirstMessage(result), "kwargs")
    /\ Has(FirstMessage(result)["kwargs"], "usage_metadata")
    /\ usage.promptTokens = 7 /\ usage.completionTokens = 337
    /\ Has(usage, "cachedTokens") /\ usage.cachedTokens = 55177

\* result.llmOutput.usageMetadata, when the envelope has it
CamelUsage(res) == Nullish(LlmOutput(res), "usageMetadata", EmptyMap)

\* the usageMetadata path is the one consulted: the two paths before it
\* yield no tokens and the object is there
CamelPathRead(res) ==
    /\ \A q \in 1..2 : ~Yields(res, q)
    /\ Has(LlmOutput(res), "usageMetadata")

\* field k of um carries a non-zero count
NonZero(um, k) == Has(um, k) /\ um[k] # 0

\* field k of um is absent or zero
AbsentOrZero(um, k) == ~Has(um, k) \/ um[k] = 0

\* of the alternative names a and b, one carries a non-zero count, the
\* other is absent or zero, and the usage field f of the record is that count
ReturnsTheNonZeroOne(um, a, b, f) ==
    /\ (NonZero(um, a) /\ AbsentOrZero(um, b)) => usage[f] = um[a]
    /\ (NonZero(um, b) /\ AbsentOrZero(um, a)) => usage[f] = um[b]

\* C14 as stated: on the usageMetadata path, whenever one of the two
\* alternative names of a count carries a non-zero count and the other is
\* absent or zero, the record reports that count.
C14_EitherAlternativeIsReturned ==
    (ppc = "parsed" /\ CamelPathRead(result)) =>
        /\ ReturnsTheNonZeroOne(CamelUsage(result), "candidatesTokenCount", "output_tokens",
                                "completionTokens")
        /\ ReturnsTheNonZeroOne(CamelUsage(result), "promptTokenCount", "input_tokens",
                                "promptTokens")

\* the count under name a when that field is present, else the count under
\* name b when present, else 0
FirstPresent(um, a, b) == IF Has(um, a) THEN um[a] ELSE IF Has(um, b) THEN um[b] ELSE 0

\* C14 amended: on the usageMetadata path each count is that of the first
\* alternative name when that field is present, even with 0, and that of the
\* second name only when the first is absent; when the completion or prompt
\* count so read is non-zero the record reports the three counts.
C14_SecondAlternativeOnlyWhenFirstAbsent ==
    LET um == CamelUsage(result)
        completion == FirstPresent(um, "candidatesTokenCount", "output_tokens")
        prompt == FirstPresent(um, "promptTokenCount", "input_tokens")
        cached == FirstPresent(um, "cachedContentTokenCount", "cached_content_token_count")
    IN  (ppc = "parsed" /\ CamelPathRead(result) /\ (completion # 0 \/ prompt # 0)) =>
            /\ usage.completionTokens = completion
            /\ usage.promptTokens = prompt
            /\ IF cached > 0
               THEN Has(usage, "cachedTokens") /\ usage.cachedTokens = cached
               ELSE ~Has(usage, "cachedTokens")

\* C14 witness: usageMetadata has only the snake_case names and the record
\* reports their counts 11, 21 and 31
C14_Witness ==
    /\ ppc = "parsed"
    /\ CamelPathRead(result)
    /\ ~Has(CamelUsage(result), "candidatesTokenCount")
    /\ usage.completionTokens = 11 /\ usage.promptTokens = 21
    /\ Has(usage, "cachedTokens") /\ usage.cachedTokens = 31

---------------------------------------------------------------------------
(* Properties of the node's configuration of the base model, checked under
   Spec *)

\* the generation parameters of the node
GenerationParameters == {"temperature", "topP", "topK", "maxOutputTokens"}

\* C15 (as claimed): with a cached content name configured, none of the
\* node's generation parameters temperature, topP, topK and maxOutputTokens
\* is in the configuration the base model is constructed with.
C15_CacheDropsGenerationParameters ==
    (pc # "init" /\ HasCache(node.cachedContentName)) =>
        \A k \in GenerationParameters : ~Has(model.params, k)

\* the last call was bindTools with an empty tool list, on the handle
\* supplyData returned, and it returned
BoundEmpty == BoundOnResponse /\ last.tools = <<>> /\ last.outcome = "return"

\* the places of a handle, kwargs and config, that hold a cachedContent
CachePlaces(h) == {place \in {"kwargs", "config"} : Has(h.obj[place], "cachedContent")}

\* C17: the handle supplyData returns carries {cachedContent: name} and
\* nothing else, whatever the rest of the configuration, so two invocations
\* with the same configuration carry the same; every bindTools([]) on a
\* cached handle returns a handle that injects cachedContent with the
\* configured name, in one place when the host's options bring none; and a
\* second bindTools([]) with the same options returns a handle equal to
\* the first one's: nothing accumulates.
C17_BindingIsIdempotent ==
    /\ [](Cached =>
            /\ response.obj.kwargs = [cachedContent |-> node.cachedContentName]
            /\ response.obj.config = EmptyMap
            /\ BoundEmpty =>
                    /\ InjectsCache(derived)
                    /\ ~Has(last.options, "cachedContent") => CachePlaces(derived) = {"kwargs"})
    /\ [][(Cached /\ BoundEmpty /\ BoundEmpty' /\ last'.options = last.options) =>
                derived'.obj = derived.obj]_vars

\* C17 witness: bindTools([]) without options returned, on a cached handle,
\* a handle whose kwargs are the empty tool list and the configured name
C17_Witness ==
    /\ Cached /\ BoundEmpty
    /\ last.options = EmptyMap
    /\ DOMAIN derived.obj.kwargs = {"tools", "cachedContent"}
    /\ derived.obj.kwargs["cachedContent"] = node.cachedContentName
    /\ derived.obj.config = EmptyMap

\* the identity fields supplyData copies from the base model
IdentityFields == {"lc_namespace", "_modelType", "_llmType", "caller", "verbose", "name"}

\* C19: the cached handle has the base model's lc_namespace, _modelType,
\* _llmType, caller, verbose and name, and it has withStructuredOutput
\* exactly when the base model has it.
C19_HandleExposesModelIdentity ==
    Cached =>
        /\ \A f \in IdentityFields :
                Has(response.obj.props, f) /\ response.obj.props[f] = model.ident[f]
        /\ (response.obj.withStructuredOutput # "none") <=>
                (model.withStructuredOutput # "none")

\* C19 witness: a cached handle over a model without withStructuredOutput
\* has the model's namespace and no withStructuredOutput
C19_Witness ==
    /\ Cached
    /\ model.withStructuredOutput = "none"
    /\ response.obj.withStructuredOutput = "none"
    /\ response.obj.props["lc_namespace"] = <<"langchain", "chat_models", "vertexai">>

---------------------------------------------------------------------------
(* N8nLlmTracing: handleLLMStart, handleLLMEnd, handleLLMError and
   setParentRunIndex of one handler instance (part_001, lines 113-224) *)

\* the serialized model description handleLLMStart receives
Llms ==
    << [type |-> "constructor", kwargs |-> [model |-> "gemini-2.5-flash"]],
       [type |-> "not_implemented", id |-> <<"ChatVertexAI">>] >>

\* the prompts of a run
Prompts == <<"hello">>

\* the results a run may end with
LlmResults ==
    << Envelope(TRUE, Absent, SnakeShapes(0)[3], Absent, Generations("kwargs", Absent)),
       Envelope(TRUE, Absent,
                Present([input_tokens |-> 8, output_tokens |-> 0,
                         input_token_details |-> [cache_read |-> 5000]]),
                Absent, Generations("kwargs", Absent)),
       Envelope(FALSE, Absent, Absent, Absent, Generations("kwargs", SnakeShapes(1)[3])),
       Envelope(TRUE, TokenUsageShapes[4], Absent, Absent, Generations("kwargs", Absent)),
       Envelope(FALSE, Absent, Absent, Absent, <<>>),
       Envelope(TRUE, Absent, Absent, CamelShapes[2], Generations("message", Absent)) >>

\* header names, character by character
XRequestId == <<"x", "-", "i", "d">>

Authorization == <<"a", "u", "t", "h">>

RetryAfter == <<"r", "e", "t", "r", "y">>

\* the errors a run may fail with; nodeError tells an instance of NodeError
LlmErrors ==
    << [name |-> "NodeApiError", nodeError |-> TRUE, message |-> "429",
        description |-> "quota exceeded",
        headers |-> (XRequestId :> "r1") @@ (Authorization :> "secret")
                        @@ (RetryAfter :> "30")],
       [name |-> "Error", nodeError |-> FALSE, message |-> "network"],
       [name |-> "Error", nodeError |-> FALSE, message |-> "503",
        headers |-> (XRequestId :> "r2")],
       [name |-> "Error", nodeError |-> FALSE, message |-> "401",
        headers |-> (Authorization :> "secret")],
       [name |-> "NodeOperationError", nodeError |-> TRUE, message |-> "bad request",
        description |-> "undefined"] >>

\* executionFunctions.getNextRunIndex(): the number of run entries of the node
GetNextRunIndex(rd) == Len(rd)

\* executionFunctions.addInputData(...): a new run entry; its index is returned
AddInputData(rd, runId) ==
    [index |-> Len(rd), runData |-> Append(rd, [startedBy |-> runId, outputBy |-> 0])]

\* executionFunctions.addOutputData(connectionType, index, data): the output of
\* the run entry at index (outputBy notes the run whose handler wrote it)
AddOutputData(rd, index, runId) ==
    IF index + 1 \in DOMAIN rd THEN [rd EXCEPT ![index + 1].outputBy = runId] ELSE rd

\* this.#parentRunIndex !== undefined ? this.#parentRunIndex + n : undefined
SourceNodeRunIndex(parent, n) ==
    IF parent.defined THEN Defined(parent.value + n) ELSE Undefined

\* Faulty variant: the index taken from the size of runsMap for every run
RunDetailsBySize(map, runId) == [index |-> Cardinality(DOMAIN map) - 1]

\* Faulty variant: index 0 for a runId without run details
RunDetailsFallbackZero(map, runId) ==
    IF runId \in DOMAIN map THEN [index |-> map[runId].index] ELSE [index |-> 0]

\* this.runsMap[runId] ?? { index: Object.keys(this.runsMap).length }
RunDetails(map, runId) ==
    IF runId \in DOMAIN map THEN [index |-> map[runId].index]
    ELSE [index |-> Cardinality(DOMAIN map)]

\* pick(g, ['text', 'generationInfo'])
Pick(g) == [k \in (DOMAIN g) \cap {"text", "generationInfo"} |-> g[k]]

\* output.generations.map((gen) => gen.map((g) => pick(g, [...])))
PickGenerations(generations) ==
    [i \in 1..Len(generations) |->
        [j \in 1..Len(generations[i]) |-> Pick(generations[i][j])]]

\* `${cachedTokens} tokens at 90% discount`
CostSavings(cachedTokens) == ToString(cachedTokens) \o " tokens at 90% discount"

TokenUsageEstimate == [completionTokens |-> 0, promptTokens |-> 0, totalTokens |-> 0]

\* Faulty variant: the parsed usage reported whenever any count is positive,
\* beside the estimate
UsageOfAnyTokens(tokenUsage) ==
    IF tokenUsage.completionTokens > 0 \/ tokenUsage.promptTokens > 0
    THEN [tokenUsage |-> tokenUsage, tokenUsageEstimate |-> TokenUsageEstimate]
    ELSE [tokenUsageEstimate |-> TokenUsageEstimate]

\* if (tokenUsage.completionTokens > 0) {...} else {...}: the usage part of
\* the response
UsageOf(tokenUsage) ==
    IF tokenUsage.completionTokens > 0
    THEN Spread([tokenUsage |-> tokenUsage],
                IF Has(tokenUsage, "cachedTokens") /\ tokenUsage.cachedTokens > 0
                THEN [metadata |-> [cachedTokens |-> tokenUsage.cachedTokens,
                                    cacheHit |-> TRUE,
                                    costSavings |-> CostSavings(tokenUsage.cachedTokens)]]
                ELSE EmptyMap)
    ELSE [tokenUsageEstimate |-> TokenUsageEstimate]

\* the response handleLLMEnd builds from the result: the generations are
\* picked first, the parser then reads the result so changed
LLMEndResponse(output) ==
    LET picked == [output EXCEPT !["generations"] = PickGenerations(@)]
        tokenUsage == TokensUsageParser(picked)
    IN  Spread([response |-> [generations |-> picked["generations"]]], UsageOf(tokenUsage))

\* key.startsWith('x-')
StartsWithX(key) == Len(key) >= 2 /\ key[1] = "x" /\ key[2] = "-"

\* Faulty variant: the headers left as they are
StripHeadersNot(error) == error

\* the error after every header whose name does not start with 'x-' is
\* deleted from error.headers
StripHeaders(error) ==
    IF Has(error, "headers")
    THEN [error EXCEPT !["headers"] =
            [k \in {h \in DOMAIN @ : StartsWithX(h)} |-> @[k]]]
    ELSE error

\* errorDescriptionMapper: (error) => error.description
ErrorDescriptionMapper(error) == error["description"]

\* new NodeOperationError(node, error, { functionality: 'configuration-node' })
NodeOperationError(error) ==
    [name |-> "NodeOperationError", nodeError |-> TRUE, message |-> error["message"],
     description |-> "undefined", functionality |-> "configuration-node", cause |-> error]

\* the error object as handleLLMError leaves it
LLMErrorAfter(error) ==
    LET stripped == StripHeaders(error)
    IN  IF error["nodeError"]
        THEN [stripped EXCEPT !["description"] = ErrorDescriptionMapper(stripped)]
        ELSE stripped

\* Faulty variant: every error wrapped, a NodeError too
LLMErrorOutputWrapped(error) == NodeOperationError(LLMErrorAfter(error))

\* the error handleLLMError hands to addOutputData
LLMErrorOutput(error) ==
    IF error["nodeError"] THEN LLMErrorAfter(error)
    ELSE NodeOperationError(LLMErrorAfter(error))

---------------------------------------------------------------------------
(* Specification SpecTracing: LLM runs interleaved on one handler instance *)

InitTracing ==
    /\ BinderIdle
    /\ ParserIdle
    /\ TracingIdle

\* handleLLMStart(llm, prompts, runId)
HandleLLMStart(runId, llm) ==
    LET sourceNodeRunIndex == SourceNodeRunIndex(parentRunIndex, GetNextRunIndex(runData))
        options == IF llm["type"] = "constructor" THEN llm["kwargs"] ELSE llm
        added == AddInputData(runData, runId)
    IN  /\ runs[runId].at = "idle"
        /\ runData' = added.runData
        /\ runsMap' = Spread(runsMap,
                [r \in {runId} |-> [index |-> added.index, options |-> options,
                                    messages |-> Prompts]])
        /\ runs' = [runs EXCEPT ![runId] = [at |-> "started", index |-> added.index]]
        /\ emitted' = [NoEmit EXCEPT !.call = "addInputData",
                                     !.handler = "handleLLMStart", !.runId = runId,
                                     !.runIndex = added.index,
                                     !.json = [messages |-> Prompts, options |-> options],
                                     !.sourceNodeRunIndex = sourceNodeRunIndex]
        /\ UNCHANGED parentRunIndex
        /\ UNCHANGED binderVars
        /\ UNCHANGED parserVars

\* handleLLMEnd(output, runId), for a run that was started or for a runId
\* the handler has no start of
HandleLLMEnd(runId, output) ==
    LET runDetails == RunDetails(runsMap, runId)
    IN  /\ runs[runId].at \in {"started", "idle"}
        /\ runData' = AddOutputData(runData, runDetails.index, runId)
        /\ runs' = [runs EXCEPT ![runId].at =
                        IF @ = "started" THEN "ended" ELSE "unknownEnded"]
        /\ emitted' = [NoEmit EXCEPT !.call = "addOutputData",
                                     !.handler = "handleLLMEnd", !.runId = runId,
                                     !.runIndex = runDetails.index,
                                     !.output = output,
                                     !.json = LLMEndResponse(output),
                                     !.sourceNodeRunIndex =
                                        SourceNodeRunIndex(parentRunIndex, runDetails.index)]
        /\ UNCHANGED <<runsMap, parentRunIndex>>
        /\ UNCHANGED binderVars
        /\ UNCHANGED parserVars

\* handleLLMError(error, runId), for a run that was started or for a runId
\* the handler has no start of
HandleLLMError(runId, error) ==
    LET runDetails == RunDetails(runsMap, runId)
    IN  /\ runs[runId].at \in {"started", "idle"}
        /\ runData' = AddOutputData(runData, runDetails.index, runId)
        /\ runs' = [runs EXCEPT ![runId].at =
                        IF @ = "started" THEN "failed" ELSE "unknownFailed"]
        /\ emitted' = [NoEmit EXCEPT !.call = "addOutputData",
                                     !.handler = "handleLLMError", !.runId = runId,
                                     !.runIndex = runDetails.index,
                                     !.error = LLMErrorOutput(error),
                                     !.thrown = error,
                                     !.after = LLMErrorAfter(error)]
        /\ UNCHANGED <<runsMap, parentRunIndex>>
        /\ UNCHANGED binderVars
        /\ UNCHANGED parserVars

\* setParentRunIndex(runIndex)
SetParentRunIndex(runIndex) ==
    /\ parentRunIndex' = Defined(runIndex)
    /\ UNCHANGED <<runsMap, runs, runData, emitted>>
    /\ UNCHANGED binderVars
    /\ UNCHANGED parserVars

NextTracing ==
    \/ \E runId \in Runs, l \in 1..Len(Llms) : HandleLLMStart(runId, Llms[l])
    \/ \E runId \in Runs, o \in 1..Len(LlmResults) : HandleLLMEnd(runId, LlmResults[o])
    \/ \E runId \in Runs, e \in 1..Len(LlmErrors) : HandleLLMError(runId, LlmErrors[e])
    \/ \E runIndex \in 0..MaxParentRunIndex : SetParentRunIndex(runIndex)

SpecTracing == InitTracing /\ [][NextTracing]_vars

---------------------------------------------------------------------------
(* Properties of the tracing callbacks, checked under SpecTracing *)

\* the record the parser returns inside handleLLMEnd, for the result the
\* last handleLLMEnd was given
UsageFound ==
    TokensUsageParser([emitted.output EXCEPT !["generations"] = PickGenerations(@)])

\* C16 (as claimed): whenever the parser finds a non-zero cached count in
\* the result handleLLMEnd is given, the emitted output has
\* tokenUsage.cachedTokens with that count and metadata {cachedTokens,
\* cacheHit: true, costSavings}.
C16_CachedCountReachesOutput ==
    (emitted.handler = "handleLLMEnd" /\ Has(UsageFound, "cachedTokens")) =>
        /\ Has(emitted.json, "tokenUsage")
        /\ Has(emitted.json["tokenUsage"], "cachedTokens")
        /\ emitted.json["tokenUsage"]["cachedTokens"] = UsageFound.cachedTokens
        /\ Has(emitted.json, "metadata")
        /\ emitted.json["metadata"]["cachedTokens"] = UsageFound.cachedTokens
        /\ emitted.json["metadata"]["cacheHit"] = TRUE
        /\ Has(emitted.json["metadata"], "costSavings")

\* C18 as stated: the error object is, after handleLLMError, what it was
\* when the handler was called, all its headers included.
C18_ErrorReachesHostUnchanged ==
    emitted.handler = "handleLLMError" => emitted.after = emitted.thrown

\* C18 amended: after handleLLMError the error object has the fields it
\* had with the values they had, except that the headers whose names do not
\* start with "x-" are deleted; and the handler starts no run again: it adds
\* no run entry, records no run details and returns no run to "started".
C18_ErrorKeepsAllButForeignHeaders ==
    /\ [](emitted.handler = "handleLLMError" =>
            /\ DOMAIN emitted.after = DOMAIN emitted.thrown
            /\ \A k \in (DOMAIN emitted.thrown) \ {"headers"} :
                    emitted.after[k] = emitted.thrown[k]
            /\ Has(emitted.thrown, "headers") =>
                    /\ DOMAIN emitted.after["headers"] =
                            {h \in DOMAIN emitted.thrown["headers"] : StartsWithX(h)}
                    /\ \A h \in DOMAIN emitted.after["headers"] :
                            emitted.after["headers"][h] = emitted.thrown["headers"][h])
    /\ [][\A r \in Runs :
            (runs[r].at = "started" /\ runs'[r].at = "failed") =>
                /\ Len(runData') = Len(runData)
                /\ runsMap' = runsMap
                /\ \A q \in Runs : runs'[q].at = "started" => runs[q].at = "started"]_vars

\* C18 witness: an error with an authorization header went through
\* handleLLMError and has only its x- header left
C18_Witness ==
    /\ emitted.handler = "handleLLMError"
    /\ Has(emitted.thrown, "headers")
    /\ Authorization \in DOMAIN emitted.thrown["headers"]
    /\ DOMAIN emitted.after["headers"] = {XRequestId}

\* C20: whatever the interleaving of the runs, handleLLMEnd and
\* handleLLMError of a run emit at the index the host returned to that
\* run's handleLLMStart, that index is the run's own entry, and no entry
\* has its output written by another run than the one that started it.
C20_OutputAtOwnIndex ==
    /\ (emitted.handler \in {"handleLLMEnd", "handleLLMError"}
            /\ emitted.runId \in DOMAIN runsMap) =>
                emitted.runIndex = runs[emitted.runId].index
    /\ \A r \in Runs :
            runs[r].at \in {"started", "ended", "failed"} =>
                /\ runs[r].index + 1 \in DOMAIN runData
                /\ runData[runs[r].index + 1].startedBy = r
    /\ \A i \in DOMAIN runData : runData[i].outputBy \in {0, runData[i].startedBy}

\* C20 witness: run 2 started first, run 1 after it, and run 2 then failed
\* at index 0 while run 1 has ended at index 1
C20_Witness ==
    /\ runs[2] = [at |-> "failed", index |-> 0]
    /\ runs[1] = [at |-> "ended", index |-> 1]
    /\ emitted.handler = "handleLLMError"
    /\ emitted.runId = 2 /\ emitted.runIndex = 0
    /\ runData[1].outputBy = 2 /\ runData[2].outputBy = 1

\* the last handleLLMEnd was given a result whose only usage information
\* is that of the first generation's message (path 4)
OnlyMessageLevelUsage ==
    /\ emitted.handler = "handleLLMEnd"
    /\ \A q \in 1..3 : ~PathCounts(emitted.output, q).found
    /\ Yields(emitted.output, 4)

\* C21 (as claimed): when handleLLMEnd is given a result whose only usage
\* information is at the first generation's message, the emitted output
\* carries a tokenUsage record with the prompt and completion counts of
\* that message.
C21_MessageLevelUsageReachesOutput ==
    OnlyMessageLevelUsage =>
        /\ Has(emitted.json, "tokenUsage")
        /\ emitted.json["tokenUsage"].promptTokens = Path4(emitted.output).promptTokens
        /\ emitted.json["tokenUsage"].completionTokens =
                Path4(emitted.output).completionTokens

\* the keys of the emitted record that report usage
UsageKeys == (DOMAIN emitted.json) \cap {"tokenUsage", "tokenUsageEstimate"}

---------------------------------------------------------------------------
(* Properties of the node without a cache reference and of its generation
   parameters, checked under Spec *)

\* supplyData returned the base model with grounding: grounding is enabled
\* and there is no cache reference
Grounded ==
    pc = "supplied" /\ GroundingRequested(node.options) /\ ~HasCache(node.cachedContentName)

\* the tool list a generation call through handle h carries
ToolsOf(h) == IF Has(CallOptions(h), "tools") THEN CallOptions(h)["tools"] ELSE <<>>

\* C23 (as claimed): with grounding and no cache reference the base model
\* is configured with the googleSearch tool, and the handle bindTools(tools)
\* returns has as its tool list the tools the base model binds for the
\* host's list followed by one googleSearch entry.
C23_GroundingKeepsHostTools ==
    Grounded =>
        /\ Has(model.params, "tools") /\ model.params["tools"] = <<GoogleSearchTool>>
        /\ (BoundOnResponse /\ last.outcome = "return") =>
                ToolsOf(derived.obj) = ConvertToGeminiTools(last.tools) \o <<GoogleSearchTool>>

\* the name is empty or has only whitespace
Blank(name) == \A i \in 1..Len(name) : name[i] = " "

\* C24: when the cached content name is empty or only whitespace, the
\* handle supplyData returns is the base model itself, it injects no
\* cachedContent, and grounding, when enabled, is applied (the googleSearch
\* tool in the model's configuration and kept by its bindTools); for every
\* other name the handle injects the configured name, character for
\* character.
C24_BlankNameIsNoCache ==
    pc = "supplied" =>
        IF Blank(node.cachedContentName)
        THEN /\ response.obj.kind = "model"
             /\ response.obj.props = model.ident
             /\ ~Has(CallOptions(response.obj), "cachedContent")
             /\ GroundingRequested(node.options) =>
                    /\ Has(model.params, "tools")
                    /\ model.params["tools"] = <<GoogleSearchTool>>
                    /\ response.obj.bindTools = "grounding"
        ELSE /\ response.obj.kind = "binding"
             /\ Has(response.obj.kwargs, "cachedContent")
             /\ Len(response.obj.kwargs["cachedContent"]) = Len(node.cachedContentName)
             /\ \A i \in 1..Len(node.cachedContentName) :
                    response.obj.kwargs["cachedContent"][i] = node.cachedContentName[i]

\* C24 witness: the name is one space, grounding is enabled, and the base
\* model was returned with the googleSearch tool
C24_Witness ==
    /\ pc = "supplied"
    /\ node.cachedContentName = <<" ">>
    /\ GroundingRequested(node.options)
    /\ response.obj.kind = "model"
    /\ model.params["tools"] = <<GoogleSearchTool>>

\* the UI default of a generation parameter
DefaultOf(k) ==
    CASE k = "temperature" -> DefaultTemperature
      [] k = "topP" -> DefaultTopP
      [] k = "topK" -> DefaultTopK
      [] k = "maxOutputTokens" -> DefaultMaxOutputTokens

\* C25 (as claimed): every generation parameter the options set, 0
\* included, is in the base model's configuration with the value set, and
\* every parameter the options leave unset is there with its UI default.
C25_ExplicitValuesPassUnchanged ==
    pc # "init" =>
        \A k \in GenerationParameters :
            /\ Has(model.params, k)
            /\ model.params[k] = IF Has(node.options, k) THEN node.options[k]
                                 ELSE DefaultOf(k)

ConfiguredOnResponse == last.op = "withConfig" /\ last.target = "response"

\* C27: withConfig(config) on a cached handle returns a handle that injects
\* the configured cachedContent; the base model's callbacks become
\* config.callbacks when the config has callbacks, and the base model is
\* left as it was when it has none; its generation parameters are never
\* changed.
C27_WithConfigKeepsCacheAndParameters ==
    [][(Cached /\ ConfiguredOnResponse') =>
            /\ last'.outcome = "return"
            /\ InjectsCache(derived')
            /\ model'.params = model.params
            /\ IF Has(last'.options, "callbacks")
               THEN /\ model'.callbacks = last'.options["callbacks"]
                    /\ model' = [model EXCEPT !.callbacks = last'.options["callbacks"]]
               ELSE model' = model]_vars

\* C27 witness: withConfig with the host's callbacks returned a handle that
\* injects the cache reference, and the base model has those callbacks
C27_Witness ==
    /\ Cached /\ ConfiguredOnResponse
    /\ Has(last.options, "callbacks")
    /\ model.callbacks = <<"hostCallbacks">>
    /\ InjectsCache(derived)
    /\ \A k \in GenerationParameters : Has(model.params, k)

---------------------------------------------------------------------------
(* Further properties of the tracing callbacks, checked under SpecTracing *)

\* C28: handleLLMError gives the host one error, at the index of the run: a
\* NodeError as the error object itself, with the description the mapper
\* returns for it, any other error as the cause of a new NodeOperationError;
\* the headers left on the error object all start with "x-"; and the call
\* writes the output of exactly one run entry.
C28_ErrorOutput ==
    /\ [](emitted.handler = "handleLLMError" =>
            /\ emitted.call = "addOutputData"
            /\ emitted.json = EmptyMap
            /\ emitted.runId \in DOMAIN runsMap =>
                    emitted.runIndex = runs[emitted.runId].index
            /\ IF emitted.thrown["nodeError"]
               THEN /\ emitted.error = emitted.after
                    /\ emitted.error["description"] = emitted.thrown["description"]
               ELSE /\ emitted.error["name"] = "NodeOperationError"
                    /\ emitted.error["nodeError"]
                    /\ emitted.error["functionality"] = "configuration-node"
                    /\ emitted.error["cause"] = emitted.after
            /\ Has(emitted.after, "headers") =>
                    \A h \in DOMAIN emitted.after["headers"] :
                        h[1] = "x" /\ h[2] = "-")
    /\ [][\A r \in Runs :
            (runs[r].at = "started" /\ runs'[r].at = "failed") =>
                Cardinality({i \in DOMAIN runData : runData'[i] # runData[i]}) = 1]_vars

\* C28 witness: an Error that is no NodeError, with an authorization header
\* only, was emitted wrapped in a NodeOperationError, its headers empty
C28_Witness ==
    /\ emitted.handler = "handleLLMError"
    /\ ~emitted.thrown["nodeError"]
    /\ Has(emitted.thrown, "headers")
    /\ DOMAIN emitted.thrown["headers"] = {Authorization}
    /\ emitted.error["name"] = "NodeOperationError"
    /\ DOMAIN emitted.error["cause"]["headers"] = {}

---------------------------------------------------------------------------
(* A further property of the usage parser, checked under SpecParser *)

\* C29 as stated: a record with a cachedTokens key has a non-zero
\* promptTokens or a non-zero completionTokens.
C29_CachedImpliesTokens ==
    (ppc = "parsed" /\ Has(usage, "cachedTokens")) =>
        (usage.promptTokens # 0 \/ usage.completionTokens # 0)

\* C29 amended: a record with a cachedTokens key has a positive count
\* there; its promptTokens and completionTokens are both 0 exactly when no
\* path yields tokens, and in that case the cache-read count of the last
\* usage object present is still reported.
C29_CachedMayComeWithZeroTokens ==
    ppc = "parsed" =>
        /\ Has(usage, "cachedTokens") => usage.cachedTokens > 0
        /\ (usage.promptTokens = 0 /\ usage.completionTokens = 0) <=>
                (\A p \in 1..4 : ~Yields(result, p))
        /\ \A p \in 2..4 :
                (/\ \A q \in 1..4 : ~Yields(result, q)
                 /\ PathCounts(result, p).found
                 /\ \A q \in (p + 1)..4 : ~PathCounts(result, q).found
                 /\ PathCounts(result, p).cachedTokens > 0)
                    => (Has(usage, "cachedTokens")
                            /\ usage.cachedTokens = PathCounts(result, p).cachedTokens)

\* C29 witness: a record with cachedTokens 5000 beside promptTokens 0 and
\* completionTokens 0
C29_Witness ==
    /\ ppc = "parsed"
    /\ Has(usage, "cachedTokens") /\ usage.cachedTokens = 5000
    /\ usage.promptTokens = 0 /\ usage.completionTokens = 0

---------------------------------------------------------------------------
(* The frame of runsMap, checked under SpecTracing *)

\* run r finishes in this step, by handleLLMEnd or handleLLMError
Finishes(r) ==
    /\ runs[r].at \in {"started", "idle"}
    /\ runs'[r].at \in {"ended", "failed", "unknownEnded", "unknownFailed"}

\* C30: runsMap changes only in a handleLLMStart step, which adds one entry,
\* under its runId and with the index the host returned, and leaves the
\* other entries as they were; a step in which a run finishes leaves runsMap
\* unchanged, and when the run has no entry the index it emits at is the
\* number of entries of runsMap.
C30_RunsMapFrame ==
    [][/\ runsMap' # runsMap =>
            /\ emitted'.handler = "handleLLMStart"
            /\ emitted'.runId \notin DOMAIN runsMap
            /\ DOMAIN runsMap' = (DOMAIN runsMap) \cup {emitted'.runId}
            /\ runsMap'[emitted'.runId].index = emitted'.runIndex
            /\ \A q \in DOMAIN runsMap : runsMap'[q] = runsMap[q]
       /\ \A r \in Runs :
            Finishes(r) =>
                /\ runsMap' = runsMap
                /\ emitted'.runId = r
                /\ r \notin DOMAIN runsMap =>
                        emitted'.runIndex = Cardinality(DOMAIN runsMap)]_vars

\* C30 witness: run 2 ended without a start while runsMap had the one entry
\* of run 1, and its output was emitted at index 1
C30_Witness ==
    /\ DOMAIN runsMap = {1}
    /\ runs[2].at = "unknownEnded"
    /\ emitted.handler = "handleLLMEnd"
    /\ emitted.runId = 2 /\ emitted.runIndex = 1

====
